---- MODULE Spec2Model ----
(***************************************************************************)
(* Model of db/sqlc/store.go: Store.execTx (the generic transaction       *)
(* executor) and Store.TransferTx (the money transfer unit of work), run  *)
(* by several concurrent callers against one store.                       *)
(*                                                                         *)
(* The store itself (BeginTx / Commit / Rollback of database/sql and the  *)
(* four generated single-statement queries) is not part of store.go; it   *)
(* is modelled from the specification: writes made through a transaction  *)
(* stay private to it until commit, a plain read returns the last         *)
(* committed row (or the transaction's own write), and an update takes    *)
(* the row's write lock, which is held until commit or rollback.          *)
(***************************************************************************)
EXTENDS Integers, Sequences, FiniteSets, TLC

(* ------------------------------ bounds -------------------------------- *)

\* number of accounts present in the store
NumAccounts == 3
\* balance of every account before any transfer
InitBalance == 10

\* the concurrent callers of TransferTx, one call each: lock conflicts and
\* overlapping read-modify-writes are between two transactions
Tx == {1, 2}
AccountIDs == 1..NumAccounts
\* the requested amounts: a non-positive one and a positive one
Amounts == {0 - 1, 1}

(* ------------------------------ errors -------------------------------- *)

\* An error value is the sequence of the pieces of its message; nil is the
\* empty sequence.
Nil == << >>

BeginErr == <<"begin tx failed">>
CommitErr == <<"commit failed">>
RollbackErr == <<"rollback failed">>

\* the error of a failed query, one per statement of the unit of work
StepErr(op) == <<op>>

\* r is exposed by e: the message of r appears, whole and in order, in e
Exposes(e, r) ==
    \E i \in 0..(Len(e) - Len(r)) : SubSeq(e, i + 1, i + Len(r)) = r

\* mutant of CombineErr: only the rollback error survives
CombineErrDropsTxErr(e, rbErr) == <<"rb err: ">> \o rbErr

\* fmt.Errorf("tx err: %v, rb err: %v", err, rbErr)
CombineErr(e, rbErr) == <<"tx err: ">> \o e \o <<", rb err: ">> \o rbErr

(* --------------------------- rows and values -------------------------- *)

ZeroTransfer == [ID |-> 0, FromAccountID |-> 0, ToAccountID |-> 0, Amount |-> 0]
ZeroEntry == [ID |-> 0, AccountID |-> 0, Amount |-> 0]
ZeroAccount == [ID |-> 0, Owner |-> "", Balance |-> 0, Currency |-> ""]

\* var result TransferTxResult
ZeroResult ==
    [Transfer |-> ZeroTransfer, FromAccount |-> ZeroAccount, ToAccount |-> ZeroAccount,
     FromEntry |-> ZeroEntry, ToEntry |-> ZeroEntry]

ZeroParams == [FromAccountID |-> 0, ToAccountID |-> 0, Amount |-> 0]

\* the writes of a transaction that has not committed
NoBalanceWrites == [a \in {} |-> 0]
NoWrites == [transfers |-> {}, entries |-> {}, bal |-> NoBalanceWrites]

VARIABLES
    accounts,    \* committed rows of table accounts, by id
    transfers,   \* committed rows of table transfers
    entries,     \* committed rows of table entries
    lock,        \* lock[a]: the transaction holding the write lock of account row a, or 0
    pending,     \* pending[p]: the uncommitted writes of p's transaction
    pc,          \* pc[p]: the statement caller p executes next
    arg,         \* arg[p]: the TransferTxParams of p's call
    result,      \* result[p]: the result variable of TransferTx
    account1,    \* account1[p], account2[p]: the rows read inside the unit of work
    account2,
    err,         \* err[p]: execTx's err (from BeginTx, then from fn)
    rbErr,       \* rbErr[p]: what tx.Rollback() returned
    retErr,      \* retErr[p]: the error TransferTx returned
    issued,      \* issued[p]: the operations call p has issued on the store, in order,
                 \*            each with the transaction it was issued on
    cancelled    \* cancelled[p]: the cancellation signal of p's ctx has fired

vars == <<accounts, transfers, entries, lock, pending, pc, arg, result,
          account1, account2, err, rbErr, retErr, issued, cancelled>>

db == <<accounts, transfers, entries>>

Init ==
    /\ accounts = [a \in AccountIDs |->
                      [ID |-> a, Owner |-> "owner", Balance |-> InitBalance, Currency |-> "USD"]]
    /\ transfers = {}
    /\ entries = {}
    /\ lock = [a \in AccountIDs |-> 0]
    /\ pending = [p \in Tx |-> NoWrites]
    /\ pc = [p \in Tx |-> "idle"]
    /\ arg = [p \in Tx |-> ZeroParams]
    /\ result = [p \in Tx |-> ZeroResult]
    /\ account1 = [p \in Tx |-> ZeroAccount]
    /\ account2 = [p \in Tx |-> ZeroAccount]
    /\ err = [p \in Tx |-> Nil]
    /\ rbErr = [p \in Tx |-> Nil]
    /\ retErr = [p \in Tx |-> Nil]
    /\ issued = [p \in Tx |-> << >>]
    /\ cancelled = [p \in Tx |-> FALSE]

(* ------------------------- the store's primitives --------------------- *)

\* ids the store gives the rows inserted by transaction p
TransferID(p) == p
FromEntryID(p) == 2 * p - 1
ToEntryID(p) == 2 * p

\* q.CreateTransfer: the inserted row
CreateTransfer(p, a) ==
    [ID |-> TransferID(p), FromAccountID |-> a.FromAccountID,
     ToAccountID |-> a.ToAccountID, Amount |-> a.Amount]

\* q.CreateEntry: the inserted row
CreateEntry(id, accountID, amount) ==
    [ID |-> id, AccountID |-> accountID, Amount |-> amount]

\* q.GetAccount inside p's transaction: the committed row, or p's own write
GetAccount(p, id) ==
    IF id \in DOMAIN pending[p].bal
        THEN [accounts[id] EXCEPT !.Balance = pending[p].bal[id]]
        ELSE accounts[id]

\* q.UpdateAccount inside p's transaction: the updated row
UpdateAccount(id, balance) == [accounts[id] EXCEPT !.Balance = balance]

\* the update statement waits while another transaction holds the row's lock
CanLock(p, id) == lock[id] \in {0, p}

WriteBalance(w, id, balance) ==
    [w EXCEPT !.bal = [a \in (DOMAIN w.bal) \cup {id} |->
                          IF a = id THEN balance ELSE w.bal[a]]]

\* the committed tables once the writes w are applied
Applied(w) ==
    [accounts |-> [a \in AccountIDs |->
                      IF a \in DOMAIN w.bal
                          THEN [accounts[a] EXCEPT !.Balance = w.bal[a]]
                          ELSE accounts[a]],
     transfers |-> transfers \cup w.transfers,
     entries |-> entries \cup w.entries]

ReleaseLocks(p) == [a \in AccountIDs |-> IF lock[a] = p THEN 0 ELSE lock[a]]

(* ------------------------------- execTx -------------------------------- *)

\* mutant of AfterFn: the error of fn is ignored and the transaction committed
AfterFnAlwaysCommits(e) == "commit"

\* mutant of AfterFn: the transaction is rolled back whatever fn returned
AfterFnAlwaysRollsBack(e) == "rollback"

\* err = fn(q); if err != nil { rollback } else commit: where execTx goes next
AfterFn(e) == IF e # Nil THEN "rollback" ELSE "commit"

\* mutant of CommitReturn: the error of tx.Commit() is swallowed
CommitReturnsNil(cErr) == Nil

\* return tx.Commit()
CommitReturn(cErr) == cErr

\* what execTx returns after tx.Rollback() returned r
RollbackReturn(e, r) == IF r # Nil THEN CombineErr(e, r) ELSE e

\* mutant of QueriesTx: every call runs its statements on one shared handle
QueriesTxShared(p) == 1

\* tx, err := store.db.BeginTx(ctx, nil); q := New(tx): the transaction the
\* Queries handed to fn by call p is bound to
QueriesTx(p) == p

\* mutant of CtxDone: the transaction is not bound to the caller's ctx
CtxNeverDone(p) == FALSE

\* the ctx given to BeginTx and to every query of call p is done
CtxDone(p) == cancelled[p]

\* call p issues operation op on transaction tx
Issue(p, op, tx) ==
    issued' = [issued EXCEPT ![p] = Append(@, [op |-> op, tx |-> tx])]

\* mutant of FnFails: the unit of work is run again after a failed statement
FnFailsRetries(p, op) ==
    /\ err' = [err EXCEPT ![p] = StepErr(op)]
    /\ pc' = [pc EXCEPT ![p] = "createTransfer"]

\* fn returned the error of statement op: err = fn(q) is not nil
FnFails(p, op) ==
    /\ err' = [err EXCEPT ![p] = StepErr(op)]
    /\ pc' = [pc EXCEPT ![p] = AfterFn(StepErr(op))]

\* mutant of TransferTx: the error of BeginTx is not checked and fn is run
TransferTxIgnoresBeginErr(p, params, beginOk) ==
    /\ pc[p] = "idle"
    /\ arg' = [arg EXCEPT ![p] = params]
    /\ result' = [result EXCEPT ![p] = ZeroResult]
    /\ Issue(p, "begin", p)
    /\ err' = [err EXCEPT ![p] = IF beginOk THEN Nil ELSE BeginErr]
    /\ pc' = [pc EXCEPT ![p] = "createTransfer"]
    /\ UNCHANGED <<db, lock, pending, account1, account2, rbErr, retErr, cancelled>>

\* TransferTx(ctx, params) up to store.db.BeginTx(ctx, nil)
TransferTx(p, params, beginOk) ==
    /\ pc[p] = "idle"
    /\ arg' = [arg EXCEPT ![p] = params]
    /\ result' = [result EXCEPT ![p] = ZeroResult]
    /\ Issue(p, "begin", p)
    /\ IF beginOk
          THEN /\ pc' = [pc EXCEPT ![p] = "createTransfer"]
               /\ UNCHANGED <<err, retErr>>
          ELSE /\ err' = [err EXCEPT ![p] = BeginErr]
               /\ retErr' = [retErr EXCEPT ![p] = BeginErr]
               /\ pc' = [pc EXCEPT ![p] = "done"]
    /\ UNCHANGED <<db, lock, pending, account1, account2, rbErr, cancelled>>

\* a caller invokes TransferTx with any request
Call(p) ==
    \E from \in AccountIDs, to \in AccountIDs, amount \in Amounts, beginOk \in BOOLEAN :
        TransferTx(p, [FromAccountID |-> from, ToAccountID |-> to, Amount |-> amount], beginOk)

\* if rbErr := tx.Rollback(); rbErr != nil { return combined } ; return err
Rollback(p) ==
    /\ pc[p] = "rollback"
    /\ \E r \in {Nil, RollbackErr} :
          /\ rbErr' = [rbErr EXCEPT ![p] = r]
          /\ retErr' = [retErr EXCEPT ![p] = RollbackReturn(err[p], r)]
    /\ Issue(p, "rollback", p)
    /\ pending' = [pending EXCEPT ![p] = NoWrites]
    /\ lock' = ReleaseLocks(p)
    /\ pc' = [pc EXCEPT ![p] = "done"]
    /\ UNCHANGED <<db, arg, result, account1, account2, err, cancelled>>

\* return tx.Commit(): the commit succeeds, or fails with the writes applied or
\* not; with the ctx done it fails and the transaction is rolled back
Commit(p) ==
    /\ pc[p] = "commit"
    /\ \E cErr \in {Nil, CommitErr}, applied \in BOOLEAN :
          /\ cErr = Nil => applied
          /\ CtxDone(p) => (cErr # Nil /\ ~applied)
          /\ retErr' = [retErr EXCEPT ![p] = CommitReturn(cErr)]
          /\ IF applied
                THEN /\ accounts' = Applied(pending[p]).accounts
                     /\ transfers' = Applied(pending[p]).transfers
                     /\ entries' = Applied(pending[p]).entries
                ELSE UNCHANGED db
    /\ Issue(p, "commit", p)
    /\ pending' = [pending EXCEPT ![p] = NoWrites]
    /\ lock' = ReleaseLocks(p)
    /\ pc' = [pc EXCEPT ![p] = "done"]
    /\ UNCHANGED <<arg, result, account1, account2, err, rbErr, cancelled>>

(* ------------------- TransferTx: the unit of work fn ------------------- *)

\* mutant of StepCreateTransfer: the balance updates come right after the
\* transfer insert, before the entries
StepCreateTransferThenBalances(p) ==
    /\ pc[p] = "createTransfer"
    /\ Issue(p, "create transfer", QueriesTx(p))
    /\ \/ /\ ~CtxDone(p)
          /\ result' = [result EXCEPT ![p].Transfer = CreateTransfer(p, arg[p])]
          /\ pending' = [pending EXCEPT ![QueriesTx(p)].transfers = @ \cup {CreateTransfer(p, arg[p])}]
          /\ pc' = [pc EXCEPT ![p] = "getAccount1"]
          /\ UNCHANGED err
       \/ /\ result' = [result EXCEPT ![p].Transfer = ZeroTransfer]
          /\ FnFails(p, "create transfer")
          /\ UNCHANGED pending
    /\ UNCHANGED <<db, lock, arg, account1, account2, rbErr, retErr, cancelled>>

\* result.Transfer, err = q.CreateTransfer(ctx, CreateTransferParams{...})
StepCreateTransfer(p) ==
    /\ pc[p] = "createTransfer"
    /\ Issue(p, "create transfer", QueriesTx(p))
    /\ \/ /\ ~CtxDone(p)
          /\ result' = [result EXCEPT ![p].Transfer = CreateTransfer(p, arg[p])]
          /\ pending' = [pending EXCEPT ![QueriesTx(p)].transfers = @ \cup {CreateTransfer(p, arg[p])}]
          /\ pc' = [pc EXCEPT ![p] = "createEntry1"]
          /\ UNCHANGED err
       \/ /\ result' = [result EXCEPT ![p].Transfer = ZeroTransfer]
          /\ FnFails(p, "create transfer")
          /\ UNCHANGED pending
    /\ UNCHANGED <<db, lock, arg, account1, account2, rbErr, retErr, cancelled>>

\* result.FromEntry, err = q.CreateEntry(ctx, {arg.FromAccountID, -arg.Amount})
StepCreateFromEntry(p) ==
    /\ pc[p] = "createEntry1"
    /\ Issue(p, "create entry 1", QueriesTx(p))
    /\ LET row == CreateEntry(FromEntryID(p), arg[p].FromAccountID, 0 - arg[p].Amount) IN
       \/ /\ ~CtxDone(p)
          /\ result' = [result EXCEPT ![p].FromEntry = row]
          /\ pending' = [pending EXCEPT ![QueriesTx(p)].entries = @ \cup {row}]
          /\ pc' = [pc EXCEPT ![p] = "createEntry2"]
          /\ UNCHANGED err
       \/ /\ result' = [result EXCEPT ![p].FromEntry = ZeroEntry]
          /\ FnFails(p, "create entry 1")
          /\ UNCHANGED pending
    /\ UNCHANGED <<db, lock, arg, account1, account2, rbErr, retErr, cancelled>>

\* mutant of StepCreateToEntry: the credit entry is not inserted
StepCreateToEntrySkipped(p) ==
    /\ pc[p] = "createEntry2"
    /\ Issue(p, "create entry 2", QueriesTx(p))
    /\ \/ /\ ~CtxDone(p)
          /\ pc' = [pc EXCEPT ![p] = "getAccount1"]
          /\ UNCHANGED <<err, result, pending>>
       \/ /\ result' = [result EXCEPT ![p].ToEntry = ZeroEntry]
          /\ FnFails(p, "create entry 2")
          /\ UNCHANGED pending
    /\ UNCHANGED <<db, lock, arg, account1, account2, rbErr, retErr, cancelled>>

\* result.ToEntry, err = q.CreateEntry(ctx, {arg.ToAccountID, arg.Amount})
StepCreateToEntry(p) ==
    /\ pc[p] = "createEntry2"
    /\ Issue(p, "create entry 2", QueriesTx(p))
    /\ LET row == CreateEntry(ToEntryID(p), arg[p].ToAccountID, arg[p].Amount) IN
       \/ /\ ~CtxDone(p)
          /\ result' = [result EXCEPT ![p].ToEntry = row]
          /\ pending' = [pending EXCEPT ![QueriesTx(p)].entries = @ \cup {row}]
          /\ pc' = [pc EXCEPT ![p] = "getAccount1"]
          /\ UNCHANGED err
       \/ /\ result' = [result EXCEPT ![p].ToEntry = ZeroEntry]
          /\ FnFails(p, "create entry 2")
          /\ UNCHANGED pending
    /\ UNCHANGED <<db, lock, arg, account1, account2, rbErr, retErr, cancelled>>

\* account1, err := q.GetAccount(ctx, arg.FromAccountID)
StepGetAccount1(p) ==
    /\ pc[p] = "getAccount1"
    /\ Issue(p, "get account 1", QueriesTx(p))
    /\ \/ /\ ~CtxDone(p)
          /\ account1' = [account1 EXCEPT ![p] = GetAccount(QueriesTx(p), arg[p].FromAccountID)]
          /\ pc' = [pc EXCEPT ![p] = "updateAccount1"]
          /\ UNCHANGED err
       \/ /\ account1' = [account1 EXCEPT ![p] = ZeroAccount]
          /\ FnFails(p, "get account 1")
    /\ UNCHANGED <<db, lock, pending, arg, result, account2, rbErr, retErr, cancelled>>

\* mutant of NewFromBalance: the amount is added to the source
NewFromBalanceAdds(account, amount) == account.Balance + amount

\* Balance: account1.Balance - arg.Amount
NewFromBalance(account, amount) == account.Balance - amount

\* Balance: account2.Balance + arg.Amount
NewToBalance(account, amount) == account.Balance + amount

\* result.FromAccount, err = q.UpdateAccount(ctx, {arg.FromAccountID, account1.Balance - arg.Amount})
StepUpdateAccount1(p) ==
    /\ pc[p] = "updateAccount1"
    /\ Issue(p, "update account 1", QueriesTx(p))
    /\ LET id == arg[p].FromAccountID
           balance == NewFromBalance(account1[p], arg[p].Amount) IN
       \/ /\ ~CtxDone(p)
          /\ CanLock(QueriesTx(p), id)
          /\ lock' = [lock EXCEPT ![id] = QueriesTx(p)]
          /\ pending' = [pending EXCEPT ![QueriesTx(p)] = WriteBalance(@, id, balance)]
          /\ result' = [result EXCEPT ![p].FromAccount = UpdateAccount(id, balance)]
          /\ pc' = [pc EXCEPT ![p] = "getAccount2"]
          /\ UNCHANGED err
       \/ /\ result' = [result EXCEPT ![p].FromAccount = ZeroAccount]
          /\ FnFails(p, "update account 1")
          /\ UNCHANGED <<lock, pending>>
    /\ UNCHANGED <<db, arg, account1, account2, rbErr, retErr, cancelled>>

\* account2, err := q.GetAccount(ctx, arg.ToAccountID)
StepGetAccount2(p) ==
    /\ pc[p] = "getAccount2"
    /\ Issue(p, "get account 2", QueriesTx(p))
    /\ \/ /\ ~CtxDone(p)
          /\ account2' = [account2 EXCEPT ![p] = GetAccount(QueriesTx(p), arg[p].ToAccountID)]
          /\ pc' = [pc EXCEPT ![p] = "updateAccount2"]
          /\ UNCHANGED err
       \/ /\ account2' = [account2 EXCEPT ![p] = ZeroAccount]
          /\ FnFails(p, "get account 2")
    /\ UNCHANGED <<db, lock, pending, arg, result, account1, rbErr, retErr, cancelled>>

\* result.ToAccount, err = q.UpdateAccount(ctx, {arg.ToAccountID, account2.Balance + arg.Amount})
\* and, with no error, return nil
StepUpdateAccount2(p) ==
    /\ pc[p] = "updateAccount2"
    /\ Issue(p, "update account 2", QueriesTx(p))
    /\ LET id == arg[p].ToAccountID
           balance == NewToBalance(account2[p], arg[p].Amount) IN
       \/ /\ ~CtxDone(p)
          /\ CanLock(QueriesTx(p), id)
          /\ lock' = [lock EXCEPT ![id] = QueriesTx(p)]
          /\ pending' = [pending EXCEPT ![QueriesTx(p)] = WriteBalance(@, id, balance)]
          /\ result' = [result EXCEPT ![p].ToAccount = UpdateAccount(id, balance)]
          /\ err' = [err EXCEPT ![p] = Nil]
          /\ pc' = [pc EXCEPT ![p] = AfterFn(Nil)]
       \/ /\ result' = [result EXCEPT ![p].ToAccount = ZeroAccount]
          /\ FnFails(p, "update account 2")
          /\ UNCHANGED <<lock, pending>>
    /\ UNCHANGED <<db, arg, account1, account2, rbErr, retErr, cancelled>>

(* --------------------------- specifications ---------------------------- *)

Step(p) ==
    \/ StepCreateTransfer(p)
    \/ StepCreateFromEntry(p)
    \/ StepCreateToEntry(p)
    \/ StepGetAccount1(p)
    \/ StepUpdateAccount1(p)
    \/ StepGetAccount2(p)
    \/ StepUpdateAccount2(p)
    \/ Rollback(p)
    \/ Commit(p)

\* concurrent callers, every interleaving of their statements
Next == \E p \in Tx : Call(p) \/ Step(p)

Spec == Init /\ [][Next]_vars

\* the cancellation / deadline signal of call p's ctx fires while its
\* transaction is open
Cancel(p) ==
    /\ pc[p] \notin {"idle", "done"}
    /\ ~cancelled[p]
    /\ cancelled' = [cancelled EXCEPT ![p] = TRUE]
    /\ UNCHANGED <<db, lock, pending, pc, arg, result, account1, account2,
                   err, rbErr, retErr, issued>>

\* a caller invokes TransferTx with a request of a positive amount
CallPositive(p) ==
    \E from \in AccountIDs, to \in AccountIDs, beginOk \in BOOLEAN :
        \E amount \in {a \in Amounts : a > 0} :
            TransferTx(p, [FromAccountID |-> from, ToAccountID |-> to, Amount |-> amount], beginOk)

\* concurrent callers whose ctx may be cancelled at any point
NextCancel == \E p \in Tx : CallPositive(p) \/ Step(p) \/ Cancel(p)

SpecCancel == Init /\ [][NextCancel]_vars

\* a caller starts only when no other call is in progress
CallSerial(p) ==
    /\ \A q \in Tx : pc[q] \in {"idle", "done"}
    /\ Call(p)

\* callers that run one after another, without concurrent interference
NextSerial == \E p \in Tx : CallSerial(p) \/ Step(p)

SpecSerial == Init /\ [][NextSerial]_vars

(* ------------------------- vocabulary of the claims -------------------- *)

Running(p) == pc[p] \notin {"idle", "done"}

\* a statement of p's unit of work failed: fn returned an error
StepFailed(p) == err[p] \notin {Nil, BeginErr}

ValidRequest(a) == a.Amount > 0 /\ a.FromAccountID # a.ToAccountID

\* the committed rows inserted by p's transaction
CommittedRowsOf(p) ==
    {t \in transfers : t.ID = TransferID(p)}
        \cup {e \in entries : e.ID \in {FromEntryID(p), ToEntryID(p)}}

HoldsLock(p) == \E a \in AccountIDs : lock[a] = p

\* p is at an update statement whose row another transaction has locked
WaitsFor(p, a) ==
    /\ \/ pc[p] = "updateAccount1" /\ a = arg[p].FromAccountID
       \/ pc[p] = "updateAccount2" /\ a = arg[p].ToAccountID
    /\ lock[a] \notin {0, p}

RECURSIVE SumAmounts(_)
SumAmounts(S) ==
    IF S = {} THEN 0
    ELSE LET e == CHOOSE x \in S : TRUE IN e.Amount + SumAmounts(S \ {e})

\* the balance account a has when the committed entries are applied one by one
LedgerBalance(a) == InitBalance + SumAmounts({e \in entries : e.AccountID = a})

FullyPopulated(r) ==
    /\ r.Transfer # ZeroTransfer
    /\ r.FromEntry # ZeroEntry
    /\ r.ToEntry # ZeroEntry
    /\ r.FromAccount # ZeroAccount
    /\ r.ToAccount # ZeroAccount

\* where a call is while it executes the statements of the unit of work
StatementPcs ==
    {"createTransfer", "createEntry1", "createEntry2", "getAccount1",
     "updateAccount1", "getAccount2", "updateAccount2"}

\* the statements of the unit of work in the order of spec 4.2: the three
\* inserts, then each balance update as a read followed by a write
StatementOrder ==
    <<"create transfer", "create entry 1", "create entry 2", "get account 1",
      "update account 1", "get account 2", "update account 2">>

IsStatement(op) == \E i \in 1..Len(StatementOrder) : StatementOrder[i] = op

\* how many of the operations call p has issued are among ops
CountIssued(p, ops) ==
    Cardinality({i \in 1..Len(issued[p]) : issued[p][i].op \in ops})

\* the last operation call p has issued
LastIssued(p) == issued[p][Len(issued[p])]

RECURSIVE SumBalances(_)
SumBalances(S) ==
    IF S = {} THEN 0
    ELSE LET a == CHOOSE x \in S : TRUE IN accounts[a].Balance + SumBalances(S \ {a})

\* the transaction of call p was begun
Begun(p) == pc[p] # "idle" /\ err[p] # BeginErr

(* --------------------------------- claims ------------------------------ *)

\* C1: when a statement of the unit of work fails, the transaction is rolled
\* back: a failed call goes to rollback and never to commit, no step other
\* than a commit changes the committed tables, none of its rows is ever
\* committed, its writes and locks are gone once it has returned, and what
\* another transaction reads is a committed row or its own write.
C1_AtomicityOnFailure ==
    [][\A p \in Tx :
        /\ (pc'[p] # pc[p] /\ pc[p] # "commit") => UNCHANGED db
        /\ StepFailed(p)' =>
              /\ pc'[p] \in {"rollback", "done"}
              /\ CommittedRowsOf(p)' = {}
              /\ pc'[p] = "done" => (pending'[p] = NoWrites /\ ~HoldsLock(p)')
        /\ (pc[p] = "getAccount1" /\ pc'[p] = "updateAccount1") =>
              account1'[p].Balance \in
                  {accounts[arg[p].FromAccountID].Balance}
                      \cup {pending[p].bal[a] : a \in DOMAIN pending[p].bal}
        /\ (pc[p] = "getAccount2" /\ pc'[p] = "updateAccount2") =>
              account2'[p].Balance \in
                  {accounts[arg[p].ToAccountID].Balance}
                      \cup {pending[p].bal[a] : a \in DOMAIN pending[p].bal}
      ]_vars

\* a call whose last statement failed after it had written a balance has
\* returned, while the other call has committed
C1_Witness ==
    \E p \in Tx, q \in Tx :
        /\ p # q
        /\ pc[p] = "done" /\ err[p] = StepErr("update account 2")
        /\ result[p].FromAccount # ZeroAccount
        /\ pc[q] = "done" /\ retErr[q] = Nil /\ ValidRequest(arg[q])
        /\ arg[q].FromAccountID = arg[p].FromAccountID

\* C2: a valid transfer that runs without concurrent interference and returns
\* no error lowers the source's committed balance by the amount, raises the
\* destination's by it, returns those two rows, the transfer (from, to,
\* amount) and the entries -amount on the source and +amount on the
\* destination.
C2_SuccessfulTransferEffect ==
    [][\A p \in Tx :
        (pc[p] = "commit" /\ pc'[p] = "done" /\ retErr'[p] = Nil /\ ValidRequest(arg[p])) =>
            LET a == arg[p]
                r == result'[p] IN
            /\ accounts'[a.FromAccountID].Balance = accounts[a.FromAccountID].Balance - a.Amount
            /\ accounts'[a.ToAccountID].Balance = accounts[a.ToAccountID].Balance + a.Amount
            /\ r.FromAccount = accounts'[a.FromAccountID]
            /\ r.ToAccount = accounts'[a.ToAccountID]
            /\ r.Transfer.FromAccountID = a.FromAccountID
            /\ r.Transfer.ToAccountID = a.ToAccountID
            /\ r.Transfer.Amount = a.Amount
            /\ r.Transfer \in transfers'
            /\ r.FromEntry.AccountID = a.FromAccountID /\ r.FromEntry.Amount = 0 - a.Amount
            /\ r.ToEntry.AccountID = a.ToAccountID /\ r.ToEntry.Amount = a.Amount
            /\ r.FromEntry.Amount + r.ToEntry.Amount = 0
            /\ {r.FromEntry, r.ToEntry} \subseteq entries'
      ]_vars

\* both calls were valid transfers out of the same account and returned no error
C2_Witness ==
    \E p \in Tx, q \in Tx :
        /\ p # q
        /\ pc[p] = "done" /\ retErr[p] = Nil /\ ValidRequest(arg[p])
        /\ pc[q] = "done" /\ retErr[q] = Nil /\ ValidRequest(arg[q])
        /\ arg[p].FromAccountID = arg[q].FromAccountID
        /\ accounts[arg[p].FromAccountID].Balance = InitBalance - 2

\* C3: no two transactions each hold the write lock of one account row while
\* waiting for the row the other holds.
C3_NoCircularWait ==
    ~ \E p \in Tx, q \in Tx, a \in AccountIDs, b \in AccountIDs :
        /\ p # q
        /\ lock[a] = p /\ WaitsFor(q, a)
        /\ lock[b] = q /\ WaitsFor(p, b)

\* C4: once all the (valid) transfers have committed, every balance is the
\* one obtained by applying the committed transfers one after another.
C4_NoLostUpdate ==
    (\A p \in Tx : pc[p] = "done" /\ retErr[p] = Nil /\ ValidRequest(arg[p])) =>
        \A a \in AccountIDs : accounts[a].Balance = LedgerBalance(a)

\* C5: of the two balance updates of a transfer the one of the account with
\* the lower id is executed first.
C5_LowerIdUpdatedFirst ==
    \A p \in Tx :
        (Running(p) /\ arg[p].FromAccountID # arg[p].ToAccountID) =>
            /\ DOMAIN pending[p].bal = {arg[p].FromAccountID} =>
                  arg[p].FromAccountID < arg[p].ToAccountID
            /\ DOMAIN pending[p].bal = {arg[p].ToAccountID} =>
                  arg[p].ToAccountID < arg[p].FromAccountID

\* C6: a request with amount <= 0 is rejected with an error before a
\* transaction is begun or anything is written.
C6_NonPositiveAmountRejected ==
    \A p \in Tx :
        (pc[p] # "idle" /\ arg[p].Amount <= 0) =>
            /\ pc[p] = "done"
            /\ retErr[p] # Nil
            /\ CommittedRowsOf(p) = {}

\* C7: a request with fromAccountID = toAccountID returns an error and never
\* creates a transfer record, an entry record or a balance update.
C7_SelfTransferRejected ==
    \A p \in Tx :
        (pc[p] # "idle" /\ arg[p].FromAccountID = arg[p].ToAccountID) =>
            /\ pc[p] = "done" => retErr[p] # Nil
            /\ pending[p] = NoWrites
            /\ CommittedRowsOf(p) = {}

\* C8: when the unit of work failed with E, execTx returns exactly E if the
\* rollback succeeded and, if the rollback failed with R, one error whose
\* message exposes both E and R.
C8_RollbackErrorReporting ==
    \A p \in Tx :
        (pc[p] = "done" /\ StepFailed(p)) =>
            /\ rbErr[p] = Nil => retErr[p] = err[p]
            /\ rbErr[p] # Nil =>
                  /\ Exposes(retErr[p], err[p])
                  /\ Exposes(retErr[p], rbErr[p])
                  /\ retErr[p] \notin {err[p], rbErr[p]}

\* one call returned after a failed rollback, the other after a successful one
C8_Witness ==
    \E p \in Tx, q \in Tx :
        /\ pc[p] = "done" /\ err[p] = StepErr("create entry 2") /\ rbErr[p] = RollbackErr
        /\ pc[q] = "done" /\ err[q] = StepErr("get account 1") /\ rbErr[q] = Nil

\* C9: TransferTx returns nil only from a commit that follows a unit of work
\* in which every statement succeeded, and that commit makes the transfer,
\* the two entries and the two balance writes visible together.
C9_NilErrorMeansCommitted ==
    [][\A p \in Tx :
        (pc[p] # "done" /\ pc'[p] = "done" /\ retErr'[p] = Nil) =>
            /\ pc[p] = "commit"
            /\ err[p] = Nil
            /\ FullyPopulated(result[p])
            /\ pending[p].transfers = {result[p].Transfer}
            /\ pending[p].entries = {result[p].FromEntry, result[p].ToEntry}
            /\ DOMAIN pending[p].bal = {arg[p].FromAccountID, arg[p].ToAccountID}
            /\ transfers' = transfers \cup pending[p].transfers
            /\ entries' = entries \cup pending[p].entries
            /\ \A a \in DOMAIN pending[p].bal : accounts'[a].Balance = pending[p].bal[a]
            /\ CommittedRowsOf(p) = {}
      ]_vars

\* one call returned nil with its rows committed, the other returned the
\* error of a failed commit
C9_Witness ==
    \E p \in Tx, q \in Tx :
        /\ pc[p] = "done" /\ retErr[p] = Nil /\ result[p].Transfer \in transfers
        /\ pc[q] = "done" /\ retErr[q] = CommitErr /\ err[q] = Nil

\* C10: the returned result is fully populated together with a nil error, and
\* carries nothing of the transfer when the returned error is not nil.
C10_AllOrNothingResult ==
    \A p \in Tx :
        pc[p] = "done" =>
            /\ retErr[p] = Nil => FullyPopulated(result[p])
            /\ retErr[p] # Nil => result[p] = ZeroResult


\* C11 as stated: once the cancellation signal of a call has fired while
\* its transaction is open, the next statement or the commit fails, a
\* rollback is attempted, the call returns an error and none of its writes
\* become visible: every cancelled call that returns has issued a rollback.
\* Stated for the requests the pre-check of spec 4.2 admits.
C11_CancellationMidTransaction ==
    [][\A p \in Tx :
        (cancelled[p] /\ ValidRequest(arg[p]) /\ pc'[p] # pc[p]) =>
            /\ UNCHANGED db
            /\ pc[p] \in StatementPcs => (StepFailed(p)' /\ pc'[p] = "rollback")
            /\ pc[p] = "commit" => retErr'[p] # Nil
            /\ pc'[p] = "done" =>
                  /\ CountIssued(p, {"rollback"})' = 1
                  /\ retErr'[p] # Nil
                  /\ CommittedRowsOf(p)' = {}
      ]_vars

\* C11 amended: once the cancellation signal of a call has fired while its
\* transaction is open, the next statement fails and a rollback is
\* attempted; when the signal fires only after the last statement, it is the
\* commit that fails, and execTx returns its error without issuing a
\* rollback. Either way nothing the call does changes the committed tables,
\* the call returns an error, none of its rows is committed and no write or
\* lock of it is left.
C11_CancellationFailsStatementOrCommit ==
    [][\A p \in Tx :
        (cancelled[p] /\ pc'[p] # pc[p]) =>
            /\ UNCHANGED db
            /\ pc[p] \in StatementPcs => (StepFailed(p)' /\ pc'[p] = "rollback")
            /\ pc[p] = "commit" => retErr'[p] = CommitErr
            /\ pc'[p] = "done" =>
                  /\ pc[p] \in {"rollback", "commit"}
                  /\ LastIssued(p)'.op = pc[p]
                  /\ CountIssued(p, {"rollback"})' = (IF StepFailed(p) THEN 1 ELSE 0)
                  /\ CountIssued(p, {"commit"})' = (IF StepFailed(p) THEN 0 ELSE 1)
                  /\ retErr'[p] # Nil
                  /\ CommittedRowsOf(p)' = {}
                  /\ pending'[p] = NoWrites
                  /\ ~HoldsLock(p)'
      ]_vars

\* one call was cancelled after it had written a balance and has returned
\* through a rollback, the other was cancelled right before its commit and
\* has returned the error of the commit, no rollback issued
C11_Witness ==
    \E p \in Tx, q \in Tx :
        /\ pc[p] = "done" /\ cancelled[p]
        /\ err[p] = StepErr("get account 2") /\ result[p].FromAccount # ZeroAccount
        /\ LastIssued(p).op = "rollback"
        /\ pc[q] = "done" /\ cancelled[q]
        /\ err[q] = Nil /\ FullyPopulated(result[q]) /\ LastIssued(q).op = "commit"
        /\ retErr[q] = CommitErr /\ CountIssued(q, {"rollback"}) = 0
        /\ CommittedRowsOf(q) = {}

\* C12: the statements of a transfer are issued in the order insert
\* transfer, insert debit entry (source, negated amount), insert credit
\* entry (destination, amount), then the balance updates, each a read
\* followed by the write; no balance is read or written before the three
\* inserts, and all statements go to the transaction begun by the call.
C12_StrictStepOrder ==
    \A p \in Tx :
        /\ \A i \in 1..Len(issued[p]) :
              /\ i = 1 => issued[p][i].op = "begin"
              /\ IsStatement(issued[p][i].op) =>
                    (i >= 2 /\ issued[p][i].op = StatementOrder[i - 1])
              /\ issued[p][i].tx = issued[p][1].tx
        /\ (account1[p] # ZeroAccount \/ DOMAIN pending[p].bal # {}) =>
              CountIssued(p, {"create transfer", "create entry 1", "create entry 2"}) = 3
        /\ (Running(p) /\ CountIssued(p, {"get account 1"}) = 1) =>
              /\ CountIssued(p, {"create transfer", "create entry 1", "create entry 2"}) = 3
              /\ pending[p].transfers = {result[p].Transfer}
              /\ pending[p].entries = {result[p].FromEntry, result[p].ToEntry}
        /\ result[p].FromEntry # ZeroEntry =>
              /\ result[p].FromEntry.AccountID = arg[p].FromAccountID
              /\ result[p].FromEntry.Amount = 0 - arg[p].Amount
        /\ result[p].ToEntry # ZeroEntry =>
              /\ result[p].ToEntry.AccountID = arg[p].ToAccountID
              /\ result[p].ToEntry.Amount = arg[p].Amount

\* a call has issued all seven statements and is about to commit, with both
\* balances written
C12_Witness ==
    \E p \in Tx :
        /\ pc[p] = "commit"
        /\ Len(issued[p]) = 8
        /\ LastIssued(p).op = "update account 2"
        /\ arg[p].FromAccountID # arg[p].ToAccountID
        /\ DOMAIN pending[p].bal = {arg[p].FromAccountID, arg[p].ToAccountID}

\* C13: once a statement of the unit of work has failed, the call issues no
\* further statement and does not run the unit of work again: its only
\* remaining operation is the rollback, which leaves the result as it was
\* and returns the statement's error (alone, or inside the combined error
\* when the rollback fails too).
C13_FailFastPropagation ==
    [][\A p \in Tx :
        /\ (StepFailed(p)' /\ ~StepFailed(p)) =>
              /\ pc[p] \in StatementPcs
              /\ pc'[p] = "rollback"
              /\ err'[p] = StepErr(LastIssued(p)'.op)
        /\ (StepFailed(p) /\ pc'[p] # pc[p]) =>
              /\ pc[p] = "rollback" /\ pc'[p] = "done"
              /\ issued'[p] = Append(issued[p], [op |-> "rollback", tx |-> p])
              /\ CountIssued(p, {"create transfer"})' = 1
              /\ result'[p] = result[p]
              /\ err'[p] = err[p]
              /\ Exposes(retErr'[p], err[p])
              /\ rbErr'[p] = Nil => retErr'[p] = err[p]
      ]_vars

\* a call whose debit-entry insert failed has returned that error after
\* issuing nothing but the rollback
C13_Witness ==
    \E p \in Tx :
        /\ pc[p] = "done"
        /\ err[p] = StepErr("create entry 1")
        /\ retErr[p] = err[p]
        /\ Len(issued[p]) = 4
        /\ result[p].Transfer # ZeroTransfer /\ result[p].ToEntry = ZeroEntry


\* C14: a call whose begin succeeded runs the unit of work exactly once, on
\* its own transaction; a call whose begin failed never runs it, attempts no
\* commit and no rollback, writes nothing and returns the begin error.
C14_UnitOfWorkRunsOnce ==
    \A p \in Tx :
        /\ err[p] = BeginErr =>
              /\ pc[p] = "done"
              /\ issued[p] = <<[op |-> "begin", tx |-> p]>>
              /\ retErr[p] = BeginErr
              /\ result[p] = ZeroResult
              /\ pending[p] = NoWrites
              /\ CommittedRowsOf(p) = {}
              /\ ~HoldsLock(p)
        /\ Begun(p) =>
              /\ CountIssued(p, {"begin"}) = 1
              /\ CountIssued(p, {"create transfer"}) = (IF pc[p] = "createTransfer" THEN 0 ELSE 1)
              /\ \A i \in 1..Len(issued[p]) : issued[p][i].tx = p

\* one call returned the begin error, the other ran its unit of work to the end
C14_Witness ==
    \E p \in Tx, q \in Tx :
        /\ pc[p] = "done" /\ retErr[p] = BeginErr
        /\ pc[q] = "done" /\ retErr[q] = Nil /\ Len(issued[q]) = 9

\* C15: a call whose begin succeeded has, when it returns, attempted exactly
\* one of commit and rollback: commit exactly when the unit of work returned
\* no error, rollback exactly when it returned one; not before the unit of
\* work has ended, and no write or row lock of it is left after the return.
C15_FinishedExactlyOnce ==
    \A p \in Tx :
        Begun(p) =>
            /\ pc[p] # "done" => CountIssued(p, {"commit", "rollback"}) = 0
            /\ pc[p] = "done" =>
                  /\ CountIssued(p, {"commit", "rollback"}) = 1
                  /\ LastIssued(p).op = (IF err[p] = Nil THEN "commit" ELSE "rollback")
                  /\ pending[p] = NoWrites
                  /\ ~HoldsLock(p)

\* one call has returned after a commit, the other after a rollback
C15_Witness ==
    \E p \in Tx, q \in Tx :
        /\ pc[p] = "done" /\ LastIssued(p).op = "commit" /\ err[p] = Nil
        /\ pc[q] = "done" /\ LastIssued(q).op = "rollback"
        /\ err[q] = StepErr("update account 1")

\* C16: in every committed state reached by (valid) transfers each balance is
\* the initial balance plus the committed entries of the account, each
\* committed transfer has its one debit and one credit entry, which sum to
\* zero, and the balances sum to the initial total.
C16_LedgerConsistency ==
    (\A p \in Tx : pc[p] # "idle" => ValidRequest(arg[p])) =>
        /\ \A a \in AccountIDs : accounts[a].Balance = LedgerBalance(a)
        /\ \A t \in transfers :
              \E d \in entries, c \in entries :
                  /\ d.ID = FromEntryID(t.ID) /\ d.AccountID = t.FromAccountID
                  /\ c.ID = ToEntryID(t.ID) /\ c.AccountID = t.ToAccountID
                  /\ d.Amount + c.Amount = 0
        /\ SumBalances(AccountIDs) = NumAccounts * InitBalance

\* C17: whatever a call does, no account row appears or disappears, no
\* owner, currency or id changes, the balance of no account other than the
\* call's source and destination changes, and no committed transfer or
\* entry is removed or modified; a commit that returns nil adds exactly one
\* transfer and exactly two entries.
C17_FrameOfTransfer ==
    [][\A p \in Tx :
        pc'[p] # pc[p] =>
            /\ DOMAIN accounts' = DOMAIN accounts
            /\ \A a \in AccountIDs :
                  /\ accounts'[a].ID = accounts[a].ID
                  /\ accounts'[a].Owner = accounts[a].Owner
                  /\ accounts'[a].Currency = accounts[a].Currency
                  /\ a \notin {arg'[p].FromAccountID, arg'[p].ToAccountID} =>
                        accounts'[a] = accounts[a]
            /\ transfers \subseteq transfers'
            /\ entries \subseteq entries'
            /\ (pc'[p] = "done" /\ retErr'[p] = Nil) =>
                  /\ Cardinality(transfers' \ transfers) = 1
                  /\ Cardinality(entries' \ entries) = 2
            /\ (pc'[p] = "done" /\ pc[p] # "commit") => UNCHANGED db
      ]_vars

\* a transfer has committed: one transfer and two entries exist, the source
\* balance has changed and a third account still has its initial row
C17_Witness ==
    \E p \in Tx, a \in AccountIDs :
        /\ pc[p] = "done" /\ retErr[p] = Nil /\ ValidRequest(arg[p])
        /\ Cardinality(transfers) = 1 /\ Cardinality(entries) = 2
        /\ a \notin {arg[p].FromAccountID, arg[p].ToAccountID}
        /\ accounts[a].Balance = InitBalance
        /\ accounts[arg[p].FromAccountID].Balance # InitBalance

\* C18: every operation of a call is issued on the transaction that call
\* began, and a step of one call leaves the other calls' uncommitted writes,
\* locks, result, errors and issued operations as they were.
C18_HandleExclusivity ==
    [][\A p \in Tx :
        pc'[p] # pc[p] =>
            /\ \A i \in 1..Len(issued'[p]) : issued'[p][i].tx = p
            /\ \A q \in Tx \ {p} :
                  /\ pending'[q] = pending[q]
                  /\ result'[q] = result[q]
                  /\ issued'[q] = issued[q]
                  /\ err'[q] = err[q] /\ retErr'[q] = retErr[q]
                  /\ account1'[q] = account1[q] /\ account2'[q] = account2[q]
                  /\ \A a \in AccountIDs : lock'[a] = q => lock[a] = q
      ]_vars

\* two calls are in progress at once, each with inserts and a balance write
\* of its own that are not yet committed
C18_Witness ==
    \E p \in Tx, q \in Tx :
        /\ p # q
        /\ Running(p) /\ Running(q)
        /\ pending[p].entries # {} /\ DOMAIN pending[p].bal # {}
        /\ pending[q].entries # {} /\ DOMAIN pending[q].bal # {}
        /\ pending[p].transfers # pending[q].transfers

====
